---- MODULE Spec2Model ----
(***************************************************************************)
(* Harmonic lattice-dynamics thermodynamics (crystal_functions/            *)
(* thermodynamics.py: classes Mode and Harmonic) and the primitive-cell    *)
(* reduction of CRYSTALpytools/geometry.py (get_pcel, get_scel).           *)
(*                                                                         *)
(* Floating-point quantities are fixed-point integers.  The formulas of    *)
(* the source are homogeneous in their units, so the units are chosen so   *)
(* that the only absolute number of the code, the 1e-5 rad/ps exclusion    *)
(* threshold, is an integer with representable values on both sides:       *)
(*   frequency    1e-7 THz, angular frequency 1e-7 rad/ps                  *)
(*   temperature  1e-6 K                                                   *)
(*   energy       1e-9 kJ/mol  (zp_energy, U_vib, helmholtz, gibbs, edft)  *)
(*   entropy/C_v  1e-3 J/(mol K)                                           *)
(*   pressure     1e-9 GPa,  volume  Angstrom^3                            *)
(* With energy unit = temperature unit * entropy unit, the expressions     *)
(* "entS / temperature * 1000" and "-entropy_t * T + U_vib_t + edft" are   *)
(* written exactly as in the source.  Dimensionless numbers (x, exp(x),    *)
(* log) carry the scale FP.  / is integer division, as every operation of  *)
(* the source rounds its result.                                           *)
(***************************************************************************)
EXTENDS Integers, Sequences, FiniteSets, TLC

(* ---------------------------------------------------------------------- *)
(* Bounds of the model                                                     *)
(* ---------------------------------------------------------------------- *)
MaxQ == 2            \* q-points in a parsed output

(* ---------------------------------------------------------------------- *)
(* Numbers of the source                                                   *)
(* ---------------------------------------------------------------------- *)
FP == 1000           \* scale of dimensionless fixed-point numbers
NA == 6022           \* 6.022141      (scale 1e-3)
Planck == 663        \* 6.626070E-2   (scale 1e-4)
Kb == 138            \* 1.380649E-3   (scale 1e-5)
Pi == 3142           \* np.pi         (scale 1e-3)
Euler == 2718        \* e, for np.exp (scale 1e-3)
Ln2 == 693           \* log(2), for np.log (scale 1e-3)
FreqThreshold == 100 \* 1e-5 rad/ps in units of 1e-7 rad/ps
JPerKJ == 1000       \* the "* 1000" of get_entropy and get_C_v
GPaA3 == 602214      \* 0.602214      (scale 1e-6)

NaN == -999999999     \* float('nan')
None == -999999998    \* Python None

IsNaN(x) == x = NaN

\* IEEE comparison: false as soon as one side is nan
FGt(a, b) == ~IsNaN(a) /\ ~IsNaN(b) /\ a > b

FAdd(a, b) == IF IsNaN(a) \/ IsNaN(b) THEN NaN ELSE a + b

\* np.exp on a non-negative fixed-point argument
RECURSIVE Exp(_)
Exp(x) ==
    IF x >= FP THEN (Exp(x - FP) * Euler) \div FP
    ELSE FP + (x * (FP + (x * (FP + (x * (FP + x \div 4)) \div (3 * FP)))
                               \div (2 * FP))) \div FP

\* np.log on a fixed-point argument in (0, 1]
RECURSIVE Ln(_)
Ln(z) ==
    IF z < FP \div 2 THEN Ln(2 * z) - Ln2
    ELSE LET u == FP - z
             u2 == (u * u) \div FP
             u3 == (u2 * u) \div FP
             u4 == (u3 * u) \div FP
             u5 == (u4 * u) \div FP
             u6 == (u5 * u) \div FP
         IN  0 - (u + u2 \div 2 + u3 \div 3 + u4 \div 4 + u5 \div 5 + u6 \div 6)

(* ---------------------------------------------------------------------- *)
(* class Mode                                                              *)
(* ---------------------------------------------------------------------- *)

\* frequency * 2 * np.pi
AngularFrequency(f) == IF IsNaN(f) THEN NaN ELSE (f * 2 * Pi) \div FP

\* Mode.__init__; has = the attributes set so far by the get_ methods
Mode(rank, frequency, volume) ==
    [rank |-> rank,
     ncalc |-> Len(frequency),
     frequency |-> [i \in DOMAIN frequency |-> AngularFrequency(frequency[i])],
     volume |-> volume,
     has |-> {},
     zp_energy |-> 0, U_vib |-> 0, entropy |-> 0, C_v |-> 0]

\* hbar_freq = self.frequency[0] * 6.022141 * 6.626070E-2 / 2 / np.pi
HbarFreq(w) ==
    IF IsNaN(w) THEN NaN ELSE (((w * NA * Planck) \div 2) \div Pi) \div 100

\* kb_t = 1.380649E-3 * 6.022141 * temperature
KbT(temperature) == (temperature * Kb * NA) \div 100000

\* expon = np.exp(hbar_freq / kb_t)
Expon(hbar_freq, kb_t) == Exp((hbar_freq * FP) \div kb_t)

\* The arithmetic below is defined where IEEE arithmetic gives a number:
\* hbar_freq > 0 and kb_t > 0.  A nan or zero frequency gives nan (0/0).
Finite(hbar_freq, kb_t) == ~IsNaN(hbar_freq) /\ hbar_freq > 0 /\ kb_t > 0

\* self.zp_energy + hbar_freq / (expon - 1); with kb_t = 0 the exponential
\* is inf and the quotient 0
UvibFormula(zp_energy, hbar_freq, temperature) ==
    LET kb_t == KbT(temperature)
    IN  IF IsNaN(hbar_freq) \/ IsNaN(zp_energy) \/ hbar_freq <= 0 THEN NaN
        ELSE IF kb_t = 0 THEN zp_energy
        ELSE zp_energy + (hbar_freq * FP) \div (Expon(hbar_freq, kb_t) - FP)

\* entS = kb_t * (hbar_freq / kb_t / (expon - 1) - np.log(1 - 1 / expon))
\* self.entropy = entS / temperature * 1000
EntropyFormula(hbar_freq, temperature) ==
    LET kb_t == KbT(temperature)
        x == (hbar_freq * FP) \div kb_t
        expon == Expon(hbar_freq, kb_t)
        entS == (kb_t * ((x * FP) \div (expon - FP)
                         - Ln(FP - (FP * FP) \div expon))) \div FP
    IN  IF ~Finite(hbar_freq, kb_t) THEN NaN
        ELSE (entS \div temperature) * JPerKJ

\* hbar_freq**2 / kb_t / temperature * expon / (expon - 1)**2 * 1000
CvFormula(hbar_freq, temperature) ==
    LET kb_t == KbT(temperature)
        expon == Expon(hbar_freq, kb_t)
    IN  IF ~Finite(hbar_freq, kb_t) THEN NaN
        ELSE ((((((hbar_freq * hbar_freq) \div kb_t) \div temperature) * expon)
                \div (((expon - FP) * (expon - FP)) \div FP))) * JPerKJ

\* The methods return [obj |-> the mode after the call, ret |-> the value
\* returned, path |-> the return statement reached].
Limited(md) == [obj |-> md, ret |-> None, path |-> "limited"]

get_zp_energy(md) ==
    IF md.ncalc > 1 THEN Limited(md)
    ELSE LET hbar_freq == HbarFreq(md.frequency[1])
             zp == IF IsNaN(hbar_freq) THEN NaN ELSE hbar_freq \div 2
         IN  [obj |-> [md EXCEPT !.zp_energy = zp,
                                 !.has = @ \cup {"zp_energy"}],
              ret |-> zp, path |-> "formula"]

get_U_vib(md, temperature) ==
    IF md.ncalc > 1 THEN Limited(md)
    ELSE LET m1 == IF "zp_energy" \notin md.has
                   THEN get_zp_energy(md).obj ELSE md
         IN  IF temperature = 0
             THEN [obj |-> [m1 EXCEPT !.U_vib = m1.zp_energy,
                                      !.has = @ \cup {"U_vib"}],
                   ret |-> m1.zp_energy, path |-> "zero"]
             ELSE LET u == UvibFormula(m1.zp_energy,
                                       HbarFreq(m1.frequency[1]), temperature)
                  IN  [obj |-> [m1 EXCEPT !.U_vib = u,
                                          !.has = @ \cup {"U_vib"}],
                       ret |-> u, path |-> "formula"]

\* Mutation of get_entropy: no branch for temperature = 0
get_entropy_nozero(md, temperature) ==
    IF md.ncalc > 1 THEN Limited(md)
    ELSE LET s == EntropyFormula(HbarFreq(md.frequency[1]), temperature)
         IN  [obj |-> [md EXCEPT !.entropy = s, !.has = @ \cup {"entropy"}],
              ret |-> s, path |-> "formula"]

get_entropy(md, temperature) ==
    IF md.ncalc > 1 THEN Limited(md)
    ELSE IF temperature = 0
         THEN [obj |-> [md EXCEPT !.entropy = 0, !.has = @ \cup {"entropy"}],
               ret |-> 0, path |-> "zero"]
         ELSE LET s == EntropyFormula(HbarFreq(md.frequency[1]), temperature)
              IN  [obj |-> [md EXCEPT !.entropy = s,
                                      !.has = @ \cup {"entropy"}],
                   ret |-> s, path |-> "formula"]

get_C_v(md, temperature) ==
    IF md.ncalc > 1 THEN Limited(md)
    ELSE IF temperature = 0
         THEN [obj |-> [md EXCEPT !.C_v = 0, !.has = @ \cup {"C_v"}],
               ret |-> 0, path |-> "zero"]
         ELSE LET c == CvFormula(HbarFreq(md.frequency[1]), temperature)
              IN  [obj |-> [md EXCEPT !.C_v = c, !.has = @ \cup {"C_v"}],
                   ret |-> c, path |-> "formula"]

(* ---------------------------------------------------------------------- *)
(* class Harmonic: phonon_sumup                                            *)
(* ---------------------------------------------------------------------- *)

\* Mutation of Included: the threshold itself passes the test
Included_ge(md) ==
    ~IsNaN(md.frequency[1]) /\ md.frequency[1] >= FreqThreshold

\* if not np.isnan(mode.frequency) and mode.frequency > 1e-5
Included(md) ==
    ~IsNaN(md.frequency[1]) /\ FGt(md.frequency[1], FreqThreshold)

\* zp_energy_q += mode.get_zp_energy() on mode i of the q-point
ZpLoopAdd(prev, i, r) ==
    [qpoint |-> [prev.qpoint EXCEPT ![i] = r.obj],
     zp_energy_q |-> FAdd(prev.zp_energy_q, r.ret)]

\* One pass of "for mode in qpoint" of the temperature = None branch
ZpLoopStep(prev, i) ==
    IF Included(prev.qpoint[i])
    THEN ZpLoopAdd(prev, i, get_zp_energy(prev.qpoint[i]))
    ELSE prev

\* The inner loop "for mode in qpoint" of the temperature = None branch,
\* over the first i modes: the modes after the calls and the running sum.
RECURSIVE ZpLoop(_, _)
ZpLoop(qpoint, i) ==
    IF i = 0 THEN [qpoint |-> qpoint, zp_energy_q |-> 0]
    ELSE ZpLoopStep(ZpLoop(qpoint, i - 1), i)

\* The three calls on one mode, in the order of the source: the mode after
\* them and the three values returned
AfterCv(ru, rs, rc) ==
    [obj |-> rc.obj, U_vib |-> ru.ret, entropy |-> rs.ret, C_v |-> rc.ret]

AfterEntropy(ru, rs, T) == AfterCv(ru, rs, get_C_v(rs.obj, T))

AfterUvib(ru, T) == AfterEntropy(ru, get_entropy(ru.obj, T), T)

ModeCalls(md, T) == AfterUvib(get_U_vib(md, T), T)

\* U_vib_q += ..., entropy_q += ..., C_v_q += ... on mode i of the q-point
TLoopAdd(prev, i, r) ==
    [qpoint |-> [prev.qpoint EXCEPT ![i] = r.obj],
     U_vib_q |-> FAdd(prev.U_vib_q, r.U_vib),
     entropy_q |-> FAdd(prev.entropy_q, r.entropy),
     C_v_q |-> FAdd(prev.C_v_q, r.C_v)]

\* One pass of "for mode in qpoint" of the branch with a temperature
TLoopStep(prev, i, T) ==
    IF Included(prev.qpoint[i])
    THEN TLoopAdd(prev, i, ModeCalls(prev.qpoint[i], T))
    ELSE prev

\* The inner loop of the branch with a temperature.
RECURSIVE TLoop(_, _, _)
TLoop(qpoint, i, T) ==
    IF i = 0 THEN [qpoint |-> qpoint, U_vib_q |-> 0, entropy_q |-> 0, C_v_q |-> 0]
    ELSE TLoopStep(TLoop(qpoint, i - 1, T), i, T)

\* zp_energy = np.append(zp_energy, zp_energy_q)
ZpAppend(prev, q) ==
    [mode |-> Append(prev.mode, q.qpoint),
     zp_energy |-> Append(prev.zp_energy, q.zp_energy_q)]

\* phonon_sumup(temperature=None), the loop "for qpoint in self.mode" over
\* the first n q-points: [mode |-> these q-points after the calls,
\* zp_energy |-> the array built by np.append]
RECURSIVE phonon_sumup_zp(_, _)
phonon_sumup_zp(mode, n) ==
    IF n = 0 THEN [mode |-> <<>>, zp_energy |-> <<>>]
    ELSE ZpAppend(phonon_sumup_zp(mode, n - 1), ZpLoop(mode[n], Len(mode[n])))

\* U_vib = np.append(U_vib, U_vib_q), and the same for entropy and C_v
TAppend(prev, q) ==
    [mode |-> Append(prev.mode, q.qpoint),
     U_vib |-> Append(prev.U_vib, q.U_vib_q),
     entropy |-> Append(prev.entropy, q.entropy_q),
     C_v |-> Append(prev.C_v, q.C_v_q)]

\* phonon_sumup(temperature=T), the same loop: the three arrays returned
RECURSIVE phonon_sumup(_, _, _)
phonon_sumup(mode, T, n) ==
    IF n = 0 THEN [mode |-> <<>>, U_vib |-> <<>>, entropy |-> <<>>, C_v |-> <<>>]
    ELSE TAppend(phonon_sumup(mode, T, n - 1), TLoop(mode[n], Len(mode[n]), T))

(* ---------------------------------------------------------------------- *)
(* class Harmonic: thermodynamics                                          *)
(* ---------------------------------------------------------------------- *)

\* helm_t = -entropy_t * T + U_vib_t + self.edft   (arrays over q-points)
HelmT(entropy_t, T, U_vib_t, edft) ==
    [q \in DOMAIN U_vib_t |->
        FAdd(FAdd(IF IsNaN(entropy_t[q]) THEN NaN ELSE (0 - entropy_t[q]) * T,
                  U_vib_t[q]), edft)]

\* gibbs_tp = p * self.volume * 0.602214 + helm_t   (array over q-points)
GibbsTP(p, volume, helm_t) ==
    [q \in DOMAIN helm_t |-> FAdd((p * volume * GPaA3) \div 1000000, helm_t[q])]

\* gibbs_t, the list over self.pressure of gibbs_tp
GibbsT(pressure, volume, helm_t) ==
    [p \in DOMAIN pressure |-> GibbsTP(pressure[p], volume, helm_t)]

\* The five appends of one pass of "for T in self.temperature"
TemperatureAppend(prev, s, helm_t, pressure, volume) ==
    [mode |-> s.mode,
     U_vib |-> Append(prev.U_vib, s.U_vib),
     entropy |-> Append(prev.entropy, s.entropy),
     C_v |-> Append(prev.C_v, s.C_v),
     helmholtz |-> Append(prev.helmholtz, helm_t),
     gibbs |-> Append(prev.gibbs, GibbsT(pressure, volume, helm_t))]

\* One pass, from the arrays s that phonon_sumup returned
TemperatureSummed(prev, s, T, pressure, volume, edft) ==
    TemperatureAppend(prev, s, HelmT(s.entropy, T, s.U_vib, edft),
                      pressure, volume)

\* One pass of "for T in self.temperature"
TemperatureStep(prev, T, pressure, volume, edft) ==
    TemperatureSummed(prev, phonon_sumup(prev.mode, T, Len(prev.mode)),
                      T, pressure, volume, edft)

\* The loop "for T in self.temperature" over the first n temperatures: the
\* lists U_vib, entropy, C_v, helmholtz (nTemp * nqpoint) and gibbs
\* (nTemp * npress * nqpoint), and self.mode after the calls.
RECURSIVE TemperatureLoop(_, _, _, _, _, _)
TemperatureLoop(mode, temperature, pressure, volume, edft, n) ==
    IF n = 0
    THEN [mode |-> mode, U_vib |-> <<>>, entropy |-> <<>>, C_v |-> <<>>,
          helmholtz |-> <<>>, gibbs |-> <<>>]
    ELSE TemperatureStep(TemperatureLoop(mode, temperature, pressure, volume,
                                         edft, n - 1),
                         temperature[n], pressure, volume, edft)

\* np.transpose of an nTemp * nqpoint array
Transpose(a, nq) ==
    [q \in 1..nq |-> [t \in DOMAIN a |-> a[t][q]]]

\* np.transpose(gibbs, (2, 0, 1)) of an nTemp * npress * nqpoint array
Transpose201(a, nq) ==
    [q \in 1..nq |-> [t \in DOMAIN a |-> [p \in DOMAIN a[t] |-> a[t][p][q]]]]

RECURSIVE SumTo(_, _)
SumTo(f, n) == IF n = 0 THEN 0 ELSE FAdd(SumTo(f, n - 1), f[n])

\* Mutation of SumAxis0: the first q-point stands for the sum
SumAxis0_first(a) == a[1]

\* np.sum(a, axis=0) of an nqpoint * nTemp array
SumAxis0(a) ==
    [t \in DOMAIN a[1] |-> SumTo([q \in DOMAIN a |-> a[q][t]], Len(a))]

\* np.sum(gibbs, axis=0) of an nqpoint * nTemp * npress array
SumAxis0Gibbs(a) ==
    [t \in DOMAIN a[1] |-> [p \in DOMAIN a[1][t] |->
        SumTo([q \in DOMAIN a |-> a[q][t][p]], Len(a))]]

Origin == <<0, 0, 0>>

Tensors == {"zp_energy", "U_vib", "entropy", "C_v", "helmholtz", "gibbs"}

\* The assignments of the branch "if sumphonon"
SumPhonon(self, z, l, nq) ==
    [self EXCEPT !.mode = l.mode,
                 !.zp_energy = z.zp_energy,
                 !.U_vib = <<SumAxis0(Transpose(l.U_vib, nq))>>,
                 !.entropy = <<SumAxis0(Transpose(l.entropy, nq))>>,
                 !.C_v = <<SumAxis0(Transpose(l.C_v, nq))>>,
                 !.helmholtz = <<SumAxis0(Transpose(l.helmholtz, nq))>>,
                 !.gibbs = <<SumAxis0Gibbs(Transpose201(l.gibbs, nq))>>,
                 !.nqpoint = 1,
                 !.qpoint = <<Origin>>,
                 !.has = @ \cup Tensors \cup {"nqpoint", "qpoint"}]

\* The assignments without sumphonon: the transposed arrays
PerQPoint(self, z, l, nq) ==
    [self EXCEPT !.mode = l.mode,
                 !.zp_energy = z.zp_energy,
                 !.U_vib = Transpose(l.U_vib, nq),
                 !.entropy = Transpose(l.entropy, nq),
                 !.C_v = Transpose(l.C_v, nq),
                 !.helmholtz = Transpose(l.helmholtz, nq),
                 !.gibbs = Transpose201(l.gibbs, nq),
                 !.has = @ \cup Tensors]

\* The statements after the loop over the temperatures
AfterTemperatureLoop(self, sumphonon, z, l) ==
    IF sumphonon THEN SumPhonon(self, z, l, Len(self.mode))
    ELSE PerQPoint(self, z, l, Len(self.mode))

\* The statements after self.zp_energy = self.phonon_sumup()
AfterZeroPoint(self, sumphonon, z) ==
    AfterTemperatureLoop(self, sumphonon, z,
        TemperatureLoop(z.mode, self.temperature, self.pressure, self.volume,
                        self.edft.v[1], Len(self.temperature)))

\* Harmonic.thermodynamics on an object that has its mode list: the object
\* after the call.  self is the record of the attributes of the object,
\* self.has the names of the attributes that exist.
thermodynamics(self, sumphonon) ==
    AfterZeroPoint(self, sumphonon, phonon_sumup_zp(self.mode, Len(self.mode)))

(* ---------------------------------------------------------------------- *)
(* CRYSTALpytools/geometry.py                                              *)
(*                                                                         *)
(* A structure is [lattice, ndimen, species, coords]: the lengths of an    *)
(* orthogonal lattice (lattice matrix diag(lattice), expansion matrices    *)
(* are diagonal too and given by their diagonal), the number of periodic   *)
(* directions (pbc is True for the first ndimen directions, as in CRYSTAL  *)
(* geometries), the atomic numbers and the coordinates of the sites.  A    *)
(* coordinate is the number k/8 + e * 1e-13, kept as [k, e]: the multiples *)
(* of 1/8 are exact in 12 decimals, e is the part that rounding to 12      *)
(* decimals acts on.                                                       *)
(* ---------------------------------------------------------------------- *)
Dims == 1..3

C(k, e) == [k |-> k, e |-> e]

Half == C(4, 0)

CSub(a, b) == C(a.k - b.k, a.e - b.e)

CMul(a, n) == C(a.k * n, a.e * n)

\* a / n, for the lattice lengths of the model (n divides both parts)
CDiv(a, n) == C(a.k \div n, a.e \div n)

CNeg(a) == C(0 - a.k, 0 - a.e)

CGt(a, b) == a.k > b.k \/ (a.k = b.k /\ a.e > b.e)

CLe(a, b) == ~CGt(a, b)

\* round(12) of one coordinate: e to the nearest multiple of 10, ties to even
Round12(a) ==
    LET q == a.e \div 10
        r == a.e % 10
    IN  C(a.k, IF r < 5 \/ (r = 5 /\ q % 2 = 0) THEN 10 * q ELSE 10 * (q + 1))

\* Fractional coordinate folded into [0, 1), as make_supercell leaves it
ToUnitCell(a) ==
    LET k == a.k % 8
    IN  IF k = 0 /\ a.e < 0 THEN C(8, a.e) ELSE C(k, a.e)

\* struc.make_supercell([[1,0,0],[0,1,0],[0,0,1]]) on the caller's object:
\* same lattice and sites, fractional coordinates folded into the cell
make_supercell_identity(struc) ==
    [struc EXCEPT !.coords =
        [i \in DOMAIN struc.coords |->
            [d \in Dims |-> ToUnitCell(struc.coords[i][d])]]]

\* struc.cart_coords
cart_coords(struc) ==
    [i \in DOMAIN struc.coords |->
        [d \in Dims |-> CMul(struc.coords[i][d], struc.lattice[d])]]

\* for i in range(natom): for j in range(ndimen):
\*     all_coords[i, 0:ndimen] -= 0.5 * scel_mx[j, 0:ndimen]
ShiftOrigin(all_coords, natom, ndimen, scel_mx) ==
    [i \in DOMAIN all_coords |->
        [d \in Dims |->
            IF i <= natom /\ d <= ndimen
            THEN CSub(all_coords[i][d], CMul(Half, scel_mx[d]))
            ELSE all_coords[i][d]]]

\* pcel_mx = shrink_mx @ scel_mx, shrink_mx = np.linalg.inv(smx)
PcelMx(smx, scel_mx) == [d \in Dims |-> scel_mx[d] \div smx[d]]

\* all_coords @ np.linalg.inv(pcel_mx)
ToFractional(all_coords, pcel_mx) ==
    [i \in DOMAIN all_coords |->
        [d \in Dims |-> CDiv(all_coords[i][d], pcel_mx[d])]]

\* Mutation of Discarded: a coordinate of 0.5 is discarded
Discarded_ge(coord, ndimen) ==
    \/ \E d \in 1..ndimen : ~CGt(Half, coord[d])
    \/ \E d \in 1..ndimen : CLe(coord[d], CNeg(Half))

\* np.any(coord[0:ndimen] > 0.5) or np.any(coord[0:ndimen] <= -0.5)
Discarded(coord, ndimen) ==
    \/ \E d \in 1..ndimen : CGt(coord[d], Half)
    \/ \E d \in 1..ndimen : CLe(coord[d], CNeg(Half))

\* The loop over enumerate(all_coords.round(12)), over the first n sites:
\* the lists pcel_coords and pcel_species
RECURSIVE PcelLoop(_, _, _, _)
PcelLoop(all_coords, all_species, ndimen, n) ==
    IF n = 0 THEN [pcel_coords |-> <<>>, pcel_species |-> <<>>]
    ELSE LET prev == PcelLoop(all_coords, all_species, ndimen, n - 1)
             coord == [d \in Dims |-> Round12(all_coords[n][d])]
         IN  IF Discarded(coord, ndimen) THEN prev
             ELSE [pcel_coords |-> Append(prev.pcel_coords, coord),
                   pcel_species |-> Append(prev.pcel_species, all_species[n])]

\* get_pcel(struc, smx): [struc |-> the caller's object after the call,
\* pcel |-> the structure returned]
get_pcel(struc, smx) ==
    LET ndimen == struc.ndimen
        natom == Len(struc.coords)
        s1 == make_supercell_identity(struc)
        scel_mx == s1.lattice
        shifted == ShiftOrigin(cart_coords(s1), natom, ndimen, scel_mx)
        pcel_mx == PcelMx(smx, scel_mx)
        all_coords == ToFractional(shifted, pcel_mx)
        l == PcelLoop(all_coords, s1.species, ndimen, Len(all_coords))
    IN  [struc |-> s1,
         pcel |-> [lattice |-> pcel_mx, ndimen |-> ndimen,
                   species |-> l.pcel_species, coords |-> l.pcel_coords]]

\* The translations of the images of a site in the supercell of a diagonal
\* expansion smx, in the order make_supercell lists them (last direction
\* fastest): image j, counted from 0
LatticePoint(smx, j) ==
    <<j \div (smx[2] * smx[3]), (j \div smx[3]) % smx[2], j % smx[3]>>

NImages(smx) == smx[1] * smx[2] * smx[3]

\* Fractional coordinate in the supercell of the image of a site translated
\* by t cells: (x + t) / m, folded into [0, 1).  The coordinates of the
\* model are divisible by the expansions of the model.
ImageCoordinate(a, t, m) == ToUnitCell(CDiv(C(a.k + 8 * t, a.e), m))

\* struc.make_supercell(smx) on the caller's object: the lattice scaled, and
\* for each site in turn all its images
make_supercell(struc, smx) ==
    [struc EXCEPT
        !.lattice = [d \in Dims |-> struc.lattice[d] * smx[d]],
        !.species = [n \in 1..(Len(struc.coords) * NImages(smx)) |->
                        struc.species[((n - 1) \div NImages(smx)) + 1]],
        !.coords = [n \in 1..(Len(struc.coords) * NImages(smx)) |->
                      [d \in Dims |->
                          ImageCoordinate(
                              struc.coords[((n - 1) \div NImages(smx)) + 1][d],
                              LatticePoint(smx, (n - 1) % NImages(smx))[d],
                              smx[d])]]]

\* The statements of get_scel after make_supercell, on the expanded object s1
\* and the natom read before the expansion
ScelOf(s1, natom) ==
    [lattice |-> s1.lattice, ndimen |-> s1.ndimen, species |-> s1.species,
     coords |-> ToFractional(ShiftOrigin(cart_coords(s1), natom, s1.ndimen,
                                         s1.lattice),
                             s1.lattice)]

\* get_scel(struc, smx): [struc |-> the caller's object after the call,
\* scel |-> the structure returned]
ScelReturn(s1, natom) == [struc |-> s1, scel |-> ScelOf(s1, natom)]

get_scel(struc, smx) ==
    ScelReturn(make_supercell(struc, smx), Len(struc.coords))

(* ---------------------------------------------------------------------- *)
(* State                                                                   *)
(* ---------------------------------------------------------------------- *)
VARIABLES
    self,   \* the Harmonic object: its attributes, self.has = those that exist
    out,    \* what the last print_results call wrote to its file
    ret,    \* the last call on the object: operation, flag argument, result
    md,     \* a Mode object used on its own
    mret,   \* the last call on md: method, temperature, value returned
    garg,   \* geometry: the structure and expansion matrix given to a call
    gstruc, \* geometry: the structure object of the caller after the call
    gres    \* geometry: the operation called and the structure it returned

vars == <<self, out, ret, md, mret, garg, gstruc, gres>>

harmonicVars == <<self, out, ret>>

modeVars == <<md, mret>>

geomVars == <<garg, gstruc, gres>>

\* Harmonic.__init__: an object without attributes.  edft is a list until
\* from_file replaces it by its only element.
NewHarmonic ==
    [has |-> {},
     edft |-> [list |-> TRUE, v |-> <<>>],
     nqpoint |-> 0, qpoint |-> <<>>, frequency |-> <<>>,
     temperature |-> <<>>, pressure |-> <<>>,
     structure |-> <<>>, natom |-> 0, volume |-> 0,
     mode |-> <<>>,
     zp_energy |-> <<>>, U_vib |-> <<>>, entropy |-> <<>>, C_v |-> <<>>,
     helmholtz |-> <<>>, gibbs |-> <<>>]

(* ---------------------------------------------------------------------- *)
(* Inputs of from_file                                                     *)
(* ---------------------------------------------------------------------- *)

\* Frequencies of a parsed output, 1e-7 THz: nan, zero, one whose angular
\* frequency is the threshold, one just above it, an optical one
Frequencies == {NaN, 0, 16, 17, 70}

\* The frequencies of the 3 * natom modes of a q-point, by ascending order
ModeLists ==
    {<<NaN, 16, 17>>, <<0, 17, 70>>, <<17, 70, 70>>, <<NaN, 0, 16>>}

\* Electronic energies found in an output, 1e-9 kJ/mol
EdftLists == {<< -5000 >>, << -5000, -4000 >>}

TemperatureGrids == {<<0, 100>>, <<150>>}

PressureGrids == {<<0, 1, 2>>}

\* The calculation cell built from the output: lattice parameters, number
\* of atoms, volume
Cells == {[lattice |-> <<5, 5, 2, 90, 90, 90>>, natom |-> 1, volume |-> 50]}

\* What read_cry_output and get_mode leave on the object
ParsedOutputs ==
    UNION {{[edft |-> e,
             nqpoint |-> nq,
             qpoint |-> [q \in 1..nq |-> <<q - 1, 0, 0>>],
             frequency |-> f] : e \in EdftLists, f \in [1..nq -> ModeLists]} :
           nq \in 1..MaxQ}

(* ---------------------------------------------------------------------- *)
(* class Harmonic: print_results                                           *)
(* ---------------------------------------------------------------------- *)
Line(tag, q, v) == [tag |-> tag, q |-> q, v |-> v]

\* The five writes before the loop over the q-points
Header(s) ==
    << Line("DFT TOTAL ENERGY", 0, s.edft.v),
       Line("CELL VOLUME", 0, <<s.volume>>),
       Line("LATTICE PARAMETERS", 0, <<>>),
       Line("A B C ALPHA BETA GAMMA", 0, <<>>),
       Line("lattice", 0, s.structure) >>

\* The writes of one pass of "for q in range(self.nqpoint)", q from 0
QBlock(s, q) ==
    << Line("HARMONIC THERMODYNAMICS AT QPOINT", q, <<>>),
       Line("zero point energy", q, <<s.zp_energy[q + 1]>>),
       Line("temperature dependent properties", q, <<>>),
       Line("T U_vib Entropy C_V Helmholtz", q, <<>>) >>
    \o [t \in DOMAIN s.temperature |->
          Line("properties", q,
               <<s.temperature[t], s.U_vib[q + 1][t], s.entropy[q + 1][t],
                 s.C_v[q + 1][t], s.helmholtz[q + 1][t]>>)]
    \o << Line("Gibbs free energy", q, <<>>),
          Line("rows : pressure", q, s.pressure),
          Line("columns : temperature", q, s.temperature) >>
    \o [i \in DOMAIN s.gibbs[q + 1] |-> Line("gibbs", q, s.gibbs[q + 1][i])]

RECURSIVE QBlocks(_, _)
QBlocks(s, n) == IF n = 0 THEN <<>> ELSE QBlocks(s, n - 1) \o QBlock(s, n - 1)

\* Harmonic.print_results: [out |-> what was written, result |-> "ok" or the
\* exception raised].  The arguments of a write are evaluated before it
\* writes, so a failing write writes nothing.
print_results(s) ==
    IF "edft" \notin s.has
    THEN [out |-> <<>>, result |-> "AttributeError"]
    ELSE IF s.edft.list
    THEN [out |-> <<>>, result |-> "TypeError"]
    ELSE IF "zp_energy" \notin s.has
    THEN [out |-> IF s.nqpoint > 0
                  THEN Header(s)
                       \o <<Line("HARMONIC THERMODYNAMICS AT QPOINT", 0, <<>>)>>
                  ELSE Header(s),
          result |-> IF s.nqpoint > 0 THEN "AttributeError" ELSE "ok"]
    ELSE [out |-> Header(s) \o QBlocks(s, s.nqpoint), result |-> "ok"]

(* ---------------------------------------------------------------------- *)
(* class Harmonic: from_file                                               *)
(* ---------------------------------------------------------------------- *)
DataExists == "ERROR: Data exists. Cannot overwriting the existing data."

SingleOnly == "ERROR: Only a single frequency calculation is premitted."

\* Mutation of HasData: the guard looks at the mode list
HasData_mode(s) == "mode" \in s.has

\* if hasattr(self, "volume")
HasData(s) == "volume" \in s.has

\* read_cry_output, the two grids, get_mode and clean_imaginary
Read(s, parsed, temperature, pressure) ==
    [s EXCEPT !.edft = [list |-> TRUE, v |-> parsed.edft],
              !.nqpoint = parsed.nqpoint,
              !.qpoint = parsed.qpoint,
              !.frequency = parsed.frequency,
              !.temperature = temperature,
              !.pressure = pressure,
              !.has = @ \cup {"edft", "nqpoint", "qpoint", "frequency",
                              "temperature", "pressure"}]

\* generate_structure: the structure, natom and volume of the cell
generate_structure(s, cell) ==
    [s EXCEPT !.structure = cell.lattice,
              !.natom = cell.natom,
              !.volume = cell.volume,
              !.has = @ \cup {"structure", "natom", "volume"}]

\* The lists of Mode objects built from self.frequency
Modes(s) ==
    [q \in DOMAIN s.frequency |->
        [m \in DOMAIN s.frequency[q] |->
            Mode(m, <<s.frequency[q][m]>>, <<s.volume>>)]]

\* self.edft = self.edft[0] and the lists of Mode objects
WithModes(s1) ==
    [s1 EXCEPT !.edft = [list |-> FALSE, v |-> <<s1.edft.v[1]>>],
               !.mode = Modes(s1),
               !.has = @ \cup {"mode"}]

\* if write_out: self.thermodynamics(sumphonon=True); self.print_results(file)
WriteOut(s4) == [self |-> s4, out |-> print_results(s4).out, result |-> "ok"]

\* The end of from_file, on the object with its modes
FromFileEnd(s3, o, write_out) ==
    IF write_out THEN WriteOut(thermodynamics(s3, TRUE))
    ELSE [self |-> s3, out |-> o, result |-> "ok"]

\* from_file after the output is read and the structure generated
FromFileRead(s1, o, write_out) ==
    IF Len(s1.edft.v) # 1
    THEN [self |-> s1, out |-> o, result |-> SingleOnly]
    ELSE FromFileEnd(WithModes(s1), o, write_out)

\* Harmonic.from_file: [self |-> the object after the call, out |-> the
\* file written (unchanged if none), result |-> "ok" (self is returned) or
\* the error string returned]
from_file(s, o, parsed, temperature, pressure, cell, write_out) ==
    IF HasData(s) THEN [self |-> s, out |-> o, result |-> DataExists]
    ELSE FromFileRead(generate_structure(Read(s, parsed, temperature, pressure),
                                         cell),
                      o, write_out)

(* ---------------------------------------------------------------------- *)
(* Operations on the object                                                *)
(* ---------------------------------------------------------------------- *)
NoModeCall ==
    [op |-> "__init__", temperature |-> 0, cached |-> FALSE, ret |-> None,
     path |-> "none"]

NoStructure == [lattice |-> <<>>, ndimen |-> 0, species |-> <<>>, coords |-> <<>>]

NoGeometry ==
    /\ garg = [struc |-> NoStructure, smx |-> <<>>]
    /\ gstruc = NoStructure
    /\ gres = [op |-> "none", struc |-> NoStructure]

Init ==
    /\ self = NewHarmonic
    /\ out = <<>>
    /\ ret = [op |-> "__init__", flag |-> FALSE, result |-> "ok"]
    /\ md = Mode(0, <<>>, <<>>)
    /\ mret = NoModeCall
    /\ NoGeometry

\* The arguments of a from_file call.  A call that the guard rejects reads
\* none of them, so one representative call stands for all of them.
FromFileInputs ==
    {[parsed |-> parsed, temperature |-> temperature, pressure |-> pressure,
      cell |-> cell] :
        parsed \in ParsedOutputs, temperature \in TemperatureGrids,
        pressure \in PressureGrids, cell \in Cells}

FromFileReturn(r, write_out) ==
    /\ self' = r.self
    /\ out' = r.out
    /\ ret' = [op |-> "from_file", flag |-> write_out, result |-> r.result]
    /\ UNCHANGED <<modeVars, geomVars>>

FromFile ==
    \E write_out \in BOOLEAN :
    \E i \in IF HasData(self) THEN {CHOOSE x \in FromFileInputs : TRUE}
             ELSE FromFileInputs :
        FromFileReturn(from_file(self, out, i.parsed, i.temperature,
                                 i.pressure, i.cell, write_out), write_out)

\* thermodynamics(sumphonon); without self.mode the first statement raises
Thermodynamics ==
    \E sumphonon \in BOOLEAN :
        /\ self' = IF "mode" \in self.has
                   THEN thermodynamics(self, sumphonon) ELSE self
        /\ ret' = [op |-> "thermodynamics", flag |-> sumphonon,
                   result |-> IF "mode" \in self.has
                              THEN "ok" ELSE "AttributeError"]
        /\ UNCHANGED <<out, modeVars, geomVars>>

\* print_results(file) on a file opened for the call
PrintResults ==
    LET r == print_results(self)
    IN  /\ out' = r.out
        /\ ret' = [op |-> "print_results", flag |-> FALSE, result |-> r.result]
        /\ UNCHANGED <<self, modeVars, geomVars>>

Next == FromFile \/ Thermodynamics \/ PrintResults

Spec == Init /\ [][Next]_vars

(* ---------------------------------------------------------------------- *)
(* Operations on a Mode object                                             *)
(* ---------------------------------------------------------------------- *)

\* Frequency lists given to Mode(): one sample, or two (ncalc = 2)
ModeFrequencies == {<<f>> : f \in Frequencies} \cup {<<17, 70>>}

\* Temperatures of the calls, 1e-6 K
QueryTemperatures == {0, 100, 150}

InitMode ==
    /\ self = NewHarmonic
    /\ out = <<>>
    /\ ret = [op |-> "__init__", flag |-> FALSE, result |-> "ok"]
    /\ md \in {Mode(1, f, [i \in DOMAIN f |-> 50]) : f \in ModeFrequencies}
    /\ mret = NoModeCall
    /\ NoGeometry

ModeCall(op, temperature, r) ==
    /\ md' = r.obj
    /\ mret' = [op |-> op, temperature |-> temperature,
                cached |-> "zp_energy" \in md.has, ret |-> r.ret,
                path |-> r.path]
    /\ UNCHANGED <<harmonicVars, geomVars>>

GetZpEnergy == ModeCall("get_zp_energy", 0, get_zp_energy(md))

GetUvib == \E T \in QueryTemperatures : ModeCall("get_U_vib", T, get_U_vib(md, T))

GetEntropy ==
    \E T \in QueryTemperatures : ModeCall("get_entropy", T, get_entropy(md, T))

GetCv == \E T \in QueryTemperatures : ModeCall("get_C_v", T, get_C_v(md, T))

NextMode == GetZpEnergy \/ GetUvib \/ GetEntropy \/ GetCv

SpecMode == InitMode /\ [][NextMode]_vars

(* ====================================================================== *)
(* Properties                                                              *)
(* ====================================================================== *)

\* The last call ran thermodynamics(sumphonon = summed) to its end
JustComputed(summed) ==
    /\ ret.result = "ok"
    /\ \/ ret.op = "thermodynamics" /\ ret.flag = summed
       \/ ret.op = "from_file" /\ ret.flag /\ summed

QPoints == DOMAIN self.mode

Temperatures == DOMAIN self.temperature

Pressures == DOMAIN self.pressure

Edft == self.edft.v[1]

\* p * V * 0.602214 at pressure index p
PV(p) == (self.pressure[p] * self.volume * GPaA3) \div 1000000

\* Sum of f over a finite set
RECURSIVE SetSum(_, _)
SetSum(f, S) ==
    IF S = {} THEN 0
    ELSE LET x == CHOOSE y \in S : TRUE IN f[x] + SetSum(f, S \ {x})

\* The modes of q-point q that the exclusion rule keeps: angular frequency
\* a number and > 1e-5
Kept(q) ==
    {m \in DOMAIN self.mode[q] :
        /\ self.mode[q][m].frequency[1] # NaN
        /\ self.mode[q][m].frequency[1] > FreqThreshold}

\* The four quantities of one mode on its own
ModeZp(q, m) == HbarFreq(self.mode[q][m].frequency[1]) \div 2

ModeU(q, m, T) ==
    IF T = 0 THEN ModeZp(q, m)
    ELSE UvibFormula(ModeZp(q, m), HbarFreq(self.mode[q][m].frequency[1]), T)

ModeS(q, m, T) ==
    IF T = 0 THEN 0 ELSE EntropyFormula(HbarFreq(self.mode[q][m].frequency[1]), T)

ModeCv(q, m, T) ==
    IF T = 0 THEN 0 ELSE CvFormula(HbarFreq(self.mode[q][m].frequency[1]), T)

\* The sums of q-point q over its kept modes
QZp(q) == SetSum([m \in Kept(q) |-> ModeZp(q, m)], Kept(q))

QU(q, t) ==
    SetSum([m \in Kept(q) |-> ModeU(q, m, self.temperature[t])], Kept(q))

QS(q, t) ==
    SetSum([m \in Kept(q) |-> ModeS(q, m, self.temperature[t])], Kept(q))

QCv(q, t) ==
    SetSum([m \in Kept(q) |-> ModeCv(q, m, self.temperature[t])], Kept(q))

\* The free energies of q-point q as thermodynamics computes them in its
\* loop over the temperatures
QHelmholtz(q, t) == (0 - QS(q, t)) * self.temperature[t] + QU(q, t) + Edft

QGibbs(q, t, p) == PV(p) + QHelmholtz(q, t)

\* C1: for every q-point and temperature T, the Helmholtz free energy of
\* thermodynamics is U - T*S/1000 + E_electronic, with U and S the sums of
\* that q-point at T (entropy converted from J to kJ).
C1_HelmholtzUnits ==
    JustComputed(FALSE) =>
        \A q \in QPoints, t \in Temperatures :
            self.helmholtz[q][t] =
                self.U_vib[q][t]
                - (self.temperature[t] * self.entropy[q][t]) \div JPerKJ
                + Edft

\* C2: after thermodynamics(sumphonon=True) on N >= 2 q-points the
\* zero-point energy array has one entry, the sum of the N zero-point
\* energies of the q-points.
C2_ZeroPointSummed ==
    (JustComputed(TRUE) /\ Len(self.mode) >= 2) =>
        /\ Len(self.zp_energy) = 1
        /\ self.zp_energy[1] = SetSum([q \in QPoints |-> QZp(q)], QPoints)

\* C3: after thermodynamics(sumphonon=True) the q-point count is 1, the
\* q-point list is [(0,0,0)], and U_vib, entropy, C_v, helmholtz and gibbs
\* have one entry on the q-point axis, the element-wise sum over the
\* q-points of the per-q-point values; a call with sumphonon=False leaves
\* one entry per q-point and the q-point count and list as they were.
C3_SummedState ==
    JustComputed(TRUE) =>
        /\ self.nqpoint = 1
        /\ self.qpoint = <<Origin>>
        /\ Len(self.U_vib) = 1 /\ DOMAIN self.U_vib[1] = Temperatures
        /\ Len(self.entropy) = 1 /\ DOMAIN self.entropy[1] = Temperatures
        /\ Len(self.C_v) = 1 /\ DOMAIN self.C_v[1] = Temperatures
        /\ Len(self.helmholtz) = 1 /\ DOMAIN self.helmholtz[1] = Temperatures
        /\ Len(self.gibbs) = 1 /\ DOMAIN self.gibbs[1] = Temperatures
        /\ \A t \in Temperatures :
              /\ self.U_vib[1][t] = SetSum([q \in QPoints |-> QU(q, t)], QPoints)
              /\ self.entropy[1][t] = SetSum([q \in QPoints |-> QS(q, t)], QPoints)
              /\ self.C_v[1][t] = SetSum([q \in QPoints |-> QCv(q, t)], QPoints)
              /\ self.helmholtz[1][t] =
                    SetSum([q \in QPoints |-> QHelmholtz(q, t)], QPoints)
              /\ DOMAIN self.gibbs[1][t] = Pressures
              /\ \A p \in Pressures :
                    self.gibbs[1][t][p] =
                        SetSum([q \in QPoints |-> QGibbs(q, t, p)], QPoints)

C3_UnsummedStep ==
    (ret'.op = "thermodynamics" /\ ~ret'.flag /\ ret'.result = "ok") =>
        /\ self'.nqpoint = self.nqpoint
        /\ self'.qpoint = self.qpoint
        /\ Len(self'.U_vib) = Len(self.mode)
        /\ Len(self'.entropy) = Len(self.mode)
        /\ Len(self'.C_v) = Len(self.mode)
        /\ Len(self'.helmholtz) = Len(self.mode)
        /\ Len(self'.gibbs) = Len(self.mode)

C3_SummedCollapse == [] C3_SummedState /\ [][C3_UnsummedStep]_vars

C3_Witness ==
    /\ JustComputed(TRUE)
    /\ Len(self.mode) = 2
    /\ \E t \in Temperatures :
          /\ self.temperature[t] > 0
          /\ QU(1, t) > 0 /\ QU(2, t) > QU(1, t)
          /\ self.entropy[1][t] > 0

\* C4: gibbs[q][t][p] = pressure[p] * volume * 0.602214 + helmholtz[q][t]
\* for every stored q, t, p, with either flag and any number of q-points.
C4_GibbsFromHelmholtz ==
    "gibbs" \in self.has =>
        \A q \in DOMAIN self.gibbs, t \in Temperatures, p \in Pressures :
            self.gibbs[q][t][p] = PV(p) + self.helmholtz[q][t]

\* C5: in the zero-point sum and in the U, S, C_v sums at a temperature, a
\* mode whose angular frequency is nan or <= 1e-5 adds nothing and a mode
\* with angular frequency > 1e-5 adds its own value to the sum of its own
\* q-point, the same set of modes in all four sums.
C5_Exclusion ==
    /\ (JustComputed(TRUE) \/ JustComputed(FALSE)) =>
          \A q \in QPoints : self.zp_energy[q] = QZp(q)
    /\ JustComputed(FALSE) =>
          \A q \in QPoints, t \in Temperatures :
              /\ self.U_vib[q][t] = QU(q, t)
              /\ self.entropy[q][t] = QS(q, t)
              /\ self.C_v[q][t] = QCv(q, t)

C5_Witness ==
    /\ JustComputed(FALSE)
    /\ \E q \in QPoints, t \in Temperatures :
          /\ self.mode[q][1].frequency[1] = NaN
          /\ self.mode[q][2].frequency[1] = FreqThreshold
          /\ self.mode[q][3].frequency[1] > FreqThreshold
          /\ self.temperature[t] > 0
          /\ self.zp_energy[q] > 0
          /\ self.U_vib[q][t] > 0 /\ self.entropy[q][t] > 0 /\ self.C_v[q][t] > 0
    /\ \E q \in QPoints : self.mode[q][1].frequency[1] = 0

\* C6: for a single-sample mode of any frequency, at temperature 0:
\* get_U_vib returns the value of get_zp_energy, get_entropy and get_C_v
\* return 0, each through the branch for temperature 0 and not through the
\* formula, whether or not zp_energy had been computed before the call.
C6_ZeroTemperature ==
    (md.ncalc = 1 /\ mret.temperature = 0) =>
        /\ mret.op = "get_U_vib" =>
              /\ mret.ret = get_zp_energy(md).ret
              /\ mret.ret = md.U_vib
              /\ mret.path = "zero"
        /\ mret.op \in {"get_entropy", "get_C_v"} =>
              mret.ret = 0 /\ mret.path = "zero"
        /\ mret.op = "get_entropy" => md.entropy = 0
        /\ mret.op = "get_C_v" => md.C_v = 0

C6_Witness ==
    /\ md.ncalc = 1
    /\ mret.op = "get_U_vib" /\ mret.temperature = 0 /\ ~mret.cached
    /\ mret.ret > 0
    /\ {"entropy", "C_v"} \subseteq md.has
    /\ md.entropy = 0 /\ md.C_v = 0

\* C7: when the output carries a number of electronic energies other than
\* one, from_file returns the single-state error and leaves no tensor, no
\* mode list, no report and no partial result (grids, structure, volume) on
\* the object.
C7_NoPartialResult ==
    (ret.op = "from_file" /\ ret.result = SingleOnly) =>
        /\ self.has \cap {"zp_energy", "U_vib", "entropy", "C_v", "helmholtz",
                          "gibbs", "mode"} = {}
        /\ out = <<>>
        /\ self.has \cap {"temperature", "pressure", "structure", "volume"} = {}

\* C8: from_file on an object whose volume is set returns the error before
\* reading anything and leaves every attribute unchanged; from_file on an
\* object without volume is never rejected by this guard.
C8_Step ==
    ret'.op = "from_file" =>
        /\ "volume" \in self.has =>
              self' = self /\ out' = out /\ ret'.result = DataExists
        /\ "volume" \notin self.has => ret'.result # DataExists

C8_DataExistsGuard == [][C8_Step]_vars

C8_Witness ==
    /\ ret.op = "from_file" /\ ret.result = DataExists
    /\ {"mode", "gibbs"} \subseteq self.has
    /\ Len(self.mode) = 2

\* C9: print_results on an object that is loaded but on which
\* thermodynamics never ran is reported as an error and writes nothing.
C9_PrintGuarded ==
    (ret.op = "print_results" /\ "mode" \in self.has
                              /\ "zp_energy" \notin self.has) =>
        ret.result # "ok" /\ out = <<>>

(* ---------------------------------------------------------------------- *)
(* Operations on structures                                                *)
(* ---------------------------------------------------------------------- *)
MaxSites == 2

\* Fractional coordinates of the sites of a supercell along one direction
Coordinates ==
    {C(0, 0), C(2, 0), C(2, 2), C(2, 30), C(4, 0), C(6, 0), C(6, 2), C(6, 30)}

\* Sites at the centre of the cell or off it along one direction
Positions ==
    {c \in [Dims -> Coordinates] :
        Cardinality({d \in Dims : c[d] # Half}) <= 1}

\* Atomic number of the i-th site
Species(i) == 10 * i

Supercells(n) ==
    {[lattice |-> <<6, 6, 6>>, ndimen |-> nd,
             species |-> [i \in 1..n |-> Species(i)], coords |-> c] :
               c \in [1..n -> Positions], nd \in 0..3}

ExpansionMatrices == {<<1, 1, 1>>, <<2, 2, 2>>}

InitGeom ==
    /\ self = NewHarmonic
    /\ out = <<>>
    /\ ret = [op |-> "__init__", flag |-> FALSE, result |-> "ok"]
    /\ md = Mode(0, <<>>, <<>>)
    /\ mret = NoModeCall
    /\ \E n \in 1..MaxSites : garg \in [struc : Supercells(n), smx : ExpansionMatrices]
    /\ gstruc = garg.struc
    /\ gres = [op |-> "none", struc |-> NoStructure]

GetPcel ==
    /\ gres.op = "none"
    /\ LET r == get_pcel(gstruc, garg.smx)
       IN  /\ gstruc' = r.struc
           /\ gres' = [op |-> "get_pcel", struc |-> r.pcel]
    /\ UNCHANGED <<garg, harmonicVars, modeVars>>

NextGeom == GetPcel

SpecGeom == InitGeom /\ [][NextGeom]_vars

\* The primitive-cell fractional coordinates of site i of the structure
\* given to get_pcel, rounded to 12 decimals: the supercell coordinate in
\* [0, 1), minus 1/2 along a periodic direction, times the expansion
PcelCoordinate(i, d) ==
    LET f == ToUnitCell(garg.struc.coords[i][d])
        g == IF d <= garg.struc.ndimen THEN CSub(f, Half) ELSE f
    IN  Round12(CMul(g, garg.smx[d]))

\* -0.5 < c <= 0.5 along every periodic direction
InPrimitiveCell(i) ==
    \A d \in 1..garg.struc.ndimen :
        LET c == PcelCoordinate(i, d)
        IN  /\ c.k > -4 \/ (c.k = -4 /\ c.e > 0)
            /\ c.k < 4 \/ (c.k = 4 /\ c.e <= 0)

KeptSites == {i \in DOMAIN garg.struc.coords : InPrimitiveCell(i)}

\* The n-th smallest element of a finite set of numbers
RECURSIVE Nth(_, _)
Nth(S, n) ==
    LET m == CHOOSE x \in S : \A y \in S : x <= y
    IN  IF n = 1 THEN m ELSE Nth(S \ {m}, n - 1)

\* C10: get_pcel keeps a site if and only if, after rounding to 12
\* decimals, each of its primitive-cell fractional coordinates along a
\* periodic direction is in (-0.5, 0.5]; non-periodic directions discard
\* nothing; the kept sites keep their species and their order.
C10_Containment ==
    gres.op = "get_pcel" =>
        /\ Len(gres.struc.coords) = Cardinality(KeptSites)
        /\ Len(gres.struc.species) = Cardinality(KeptSites)
        /\ \A n \in 1..Cardinality(KeptSites) :
              /\ gres.struc.species[n] = garg.struc.species[Nth(KeptSites, n)]
              /\ \A d \in Dims :
                    gres.struc.coords[n][d] = PcelCoordinate(Nth(KeptSites, n), d)

C10_Witness ==
    /\ gres.op = "get_pcel"
    /\ garg.struc.ndimen = 2
    /\ garg.smx = <<2, 2, 2>>
    /\ Len(garg.struc.coords) = 2
    /\ garg.struc.coords[1][1] = C(2, 2)
    /\ garg.struc.coords[2][2] = C(6, 2)
    /\ gres.struc.species = <<Species(2)>>
    /\ gres.struc.coords[1][2] = Half

(* ---------------------------------------------------------------------- *)
(* Expansion of a primitive cell and the way back                          *)
(* ---------------------------------------------------------------------- *)

\* Fractional coordinates of the sites of a primitive cell
PrimitiveCoordinates == {C(0, 0), C(2, 0), C(4, 0), C(4, 4), C(6, 0)}

\* Sites on the diagonal of the cell, and two sites off it
PrimitivePositions ==
    {[d \in Dims |-> c] : c \in PrimitiveCoordinates}
        \cup {<<C(0, 0), C(4, 0), C(2, 0)>>, <<C(4, 0), C(0, 0), C(0, 0)>>}

\* Simple cubic cells of n distinct sites
PrimitiveCells(n) ==
    {[lattice |-> <<3, 3, 3>>, ndimen |-> nd,
      species |-> [i \in 1..n |-> Species(i)], coords |-> c] :
        c \in {x \in [1..n -> PrimitivePositions] :
                  \A i, j \in 1..n : i # j => x[i] # x[j]},
        nd \in 0..3}

\* Diagonal expansion matrices, the identity among them
ScelExpansions == {<<1, 1, 1>>, <<2, 1, 1>>, <<2, 2, 1>>, <<2, 2, 2>>}

InitScel ==
    /\ self = NewHarmonic
    /\ out = <<>>
    /\ ret = [op |-> "__init__", flag |-> FALSE, result |-> "ok"]
    /\ md = Mode(0, <<>>, <<>>)
    /\ mret = NoModeCall
    /\ \E n \in 1..MaxSites :
          garg \in [struc : PrimitiveCells(n), smx : ScelExpansions]
    /\ gstruc = garg.struc
    /\ gres = [op |-> "none", struc |-> NoStructure]

ScelCall(r) ==
    /\ gstruc' = r.struc
    /\ gres' = [op |-> "get_scel", struc |-> r.scel]
    /\ UNCHANGED <<garg, harmonicVars, modeVars>>

\* scel = get_scel(struc, smx)
GetScel ==
    /\ gres.op = "none"
    /\ ScelCall(get_scel(gstruc, garg.smx))

\* get_pcel(scel, smx) on the structure that get_scel returned
GetPcelOfScel ==
    /\ gres.op = "get_scel"
    /\ gres' = [op |-> "round trip", struc |-> get_pcel(gres.struc, garg.smx).pcel]
    /\ UNCHANGED <<garg, gstruc, harmonicVars, modeVars>>

NextScel == GetScel \/ GetPcelOfScel

SpecScel == InitScel /\ [][NextScel]_vars

\* Two fractional coordinates that agree within 1e-10 up to a lattice
\* translation
SameCoordinate(a, b) ==
    /\ (a.k - b.k) % 8 = 0
    /\ a.e - b.e <= 1000
    /\ b.e - a.e <= 1000

\* The structure given to get_scel is a single-atom cell, periodic in its
\* three directions, expanded by diag(2, 2, 2)
SingleAtomDoubled ==
    /\ Len(garg.struc.coords) = 1
    /\ garg.struc.ndimen = 3
    /\ garg.smx = <<2, 2, 2>>

\* C11: for a simple cubic single-atom primitive cell P and M = diag(2,2,2),
\* get_pcel(get_scel(P, M), M) has one site, the lattice of P and the
\* fractional coordinates of the site of P.
C11_RoundTrip ==
    (gres.op = "round trip" /\ SingleAtomDoubled) =>
        /\ Len(gres.struc.coords) = 1
        /\ gres.struc.lattice = garg.struc.lattice
        /\ \A d \in Dims :
              SameCoordinate(gres.struc.coords[1][d], garg.struc.coords[1][d])

(* ---------------------------------------------------------------------- *)
(* Recomputation                                                           *)
(* ---------------------------------------------------------------------- *)

\* The object as from_file(write_out = False) leaves it for the output that
\* self was loaded from: the q-points of the output and new Mode objects
FreshlyLoaded ==
    [self EXCEPT !.nqpoint = Len(self.frequency),
                 !.qpoint = [q \in 1..Len(self.frequency) |-> <<q - 1, 0, 0>>],
                 !.mode = Modes(self)]

\* What one call with the flag of the last call stores on that object
SingleCall == thermodynamics(FreshlyLoaded, ret.flag)

\* The stored state is the one of a single call on a freshly loaded object
SameAsSingleCall ==
    /\ self.zp_energy = SingleCall.zp_energy
    /\ self.U_vib = SingleCall.U_vib
    /\ self.entropy = SingleCall.entropy
    /\ self.C_v = SingleCall.C_v
    /\ self.helmholtz = SingleCall.helmholtz
    /\ self.gibbs = SingleCall.gibbs
    /\ self.nqpoint = SingleCall.nqpoint
    /\ self.qpoint = SingleCall.qpoint

\* nqpoint is the length of the q-point axis of every tensor
QPointAxis ==
    /\ Len(self.zp_energy) = self.nqpoint
    /\ Len(self.U_vib) = self.nqpoint
    /\ Len(self.entropy) = self.nqpoint
    /\ Len(self.C_v) = self.nqpoint
    /\ Len(self.helmholtz) = self.nqpoint
    /\ Len(self.gibbs) = self.nqpoint
    /\ Len(self.qpoint) = self.nqpoint

\* The part of C12 about repeated calls
C12_Overwritten ==
    (ret.op = "thermodynamics" /\ ret.result = "ok") => SameAsSingleCall

\* The part of C12 about the q-point axis
C12_Axis ==
    (ret.op = "thermodynamics" /\ ret.result = "ok") => QPointAxis

\* C12: after any sequence of thermodynamics calls on a loaded object, the
\* tensors, nqpoint and qpoint are those that a single call with the last
\* flag stores on a freshly loaded object, and nqpoint is the length of the
\* q-point axis of every stored tensor.
C12_Recomputation == C12_Overwritten /\ C12_Axis

(* ---------------------------------------------------------------------- *)
(* The report                                                              *)
(* ---------------------------------------------------------------------- *)

\* The last call wrote a whole report
ReportWritten ==
    \/ ret.op = "print_results" /\ ret.result = "ok"
    \/ ret.op = "from_file" /\ ret.result = "ok" /\ ret.flag

IsGibbsRowOf(l, q) == l.tag = "gibbs" /\ l.q = q

\* The rows of the Gibbs matrix printed for q-point q (from 0), in order
GibbsRows(q) == SelectSeq(out, LAMBDA l : IsGibbsRowOf(l, q))

\* C13: in the report of each q-point the Gibbs matrix has one row per
\* pressure and one column per temperature: the value at row i, column j is
\* the Gibbs free energy at pressure[i] and temperature[j].
C13_GibbsMatrix ==
    ReportWritten =>
        \A q \in 0..(self.nqpoint - 1) :
            /\ Len(GibbsRows(q)) = Len(self.pressure)
            /\ \A i \in 1..Len(GibbsRows(q)) :
                  /\ Len(GibbsRows(q)[i].v) = Len(self.temperature)
                  /\ \A j \in 1..Len(self.temperature) :
                        GibbsRows(q)[i].v[j] = self.gibbs[q + 1][j][i]

(* ---------------------------------------------------------------------- *)
(* Terms that do not depend on the q-point                                 *)
(* ---------------------------------------------------------------------- *)

\* The vibrational part of the Helmholtz free energy of q-point q: U minus
\* the T * S term, as the loop over the temperatures forms it
QVibrational(q, t) == (0 - QS(q, t)) * self.temperature[t] + QU(q, t)

\* C14: after thermodynamics(sumphonon=True) on any number N of q-points,
\* helmholtz[0][t] is the electronic energy, once, plus the sum over the
\* q-points of the vibrational part, and gibbs[0][t][p] is
\* pressure[p] * volume * 0.602214, once, plus helmholtz[0][t].
C14_TermsOnce ==
    JustComputed(TRUE) =>
        \A t \in Temperatures :
            /\ self.helmholtz[1][t] =
                  Edft + SetSum([q \in QPoints |-> QVibrational(q, t)], QPoints)
            /\ \A p \in Pressures :
                  self.gibbs[1][t][p] = PV(p) + self.helmholtz[1][t]

(* ---------------------------------------------------------------------- *)
(* The origin shift of get_scel                                            *)
(* ---------------------------------------------------------------------- *)

\* get_scel has returned the supercell of an expansion of determinant > 1
Expanded == gres.op = "get_scel" /\ NImages(garg.smx) > 1

\* The sites of the supercell: gstruc holds them as make_supercell left
\* them, gres.struc as get_scel returned them
ScelSites == DOMAIN gres.struc.coords

\* Site n is translated by -0.5 of each periodic supercell vector
ShiftedSite(n) ==
    \A d \in Dims :
        gres.struc.coords[n][d] =
            IF d <= garg.struc.ndimen
            THEN CSub(gstruc.coords[n][d], Half)
            ELSE gstruc.coords[n][d]

\* The displacement from site j to site i is the one before the shift
SameDisplacement(i, j) ==
    \A d \in Dims :
        CSub(gres.struc.coords[i][d], gres.struc.coords[j][d]) =
            CSub(gstruc.coords[i][d], gstruc.coords[j][d])

\* Sites i and j of the supercell returned differ by a lattice translation
PeriodicImages(i, j) ==
    \A d \in Dims :
        LET a == gres.struc.coords[i][d]
            b == gres.struc.coords[j][d]
        IN  /\ a.e = b.e
            /\ IF d <= garg.struc.ndimen THEN (a.k - b.k) % 8 = 0
               ELSE a.k = b.k

\* C15: get_scel shifts every site of the expanded supercell by -0.5 times
\* the sum of the periodic supercell vectors, for any expansion matrix of
\* determinant > 1: the displacement between any two sites is the one of
\* the unshifted supercell and no two distinct sites are periodic images of
\* one another.
C15_ShiftAllSites ==
    Expanded =>
        /\ \A n \in ScelSites : ShiftedSite(n)
        /\ \A i, j \in ScelSites : SameDisplacement(i, j)
        /\ \A i, j \in ScelSites : i # j => ~PeriodicImages(i, j)

====
